---- MODULE Spec2Model ----
(***************************************************************************)
(* A model of the RAG chat backend: the HTTP handlers of the server        *)
(* (POST /api/chat, GET and DELETE /api/history/:sessionId), the Redis     *)
(* session cache, the generation, embedding and vector-store clients, and  *)
(* the news ingestion script.                                              *)
(*                                                                         *)
(* JavaScript strings are sequences of one-character strings, so that      *)
(* trim(), emptiness and concatenation are computed and not assumed.       *)
(* A JavaScript value that may be undefined is a record [type, s].         *)
(***************************************************************************)
EXTENDS Integers, Sequences, FiniteSets, TLC

(***************************************************************************)
(* Bounds of the model.                                                    *)
(***************************************************************************)
\* chat requests accepted in one behaviour
MaxReq == 2

(***************************************************************************)
(* JavaScript values.                                                      *)
(***************************************************************************)
Undef == [type |-> "undefined", s |-> <<>>]
Str(s) == [type |-> "string", s |-> s]

\* !v is false exactly for a non-empty string (undefined and '' are falsy)
Truthy(v) == v.type = "string" /\ v.s # <<>>

IsSpace(c) == c \in {" ", "\n"}

RECURSIVE TrimStart(_)
TrimStart(s) ==
  IF s # <<>> /\ IsSpace(Head(s)) THEN TrimStart(Tail(s)) ELSE s

RECURSIVE TrimEnd(_)
TrimEnd(s) ==
  IF s # <<>> /\ IsSpace(s[Len(s)]) THEN TrimEnd(SubSeq(s, 1, Len(s) - 1)) ELSE s

\* String.prototype.trim
Trim(s) == TrimEnd(TrimStart(s))

RECURSIVE Reverse(_)
\* Array.prototype.reverse
Reverse(s) == IF s = <<>> THEN <<>> ELSE Append(Reverse(Tail(s)), Head(s))

RECURSIVE Join(_, _)
\* Array.prototype.join
Join(parts, sep) ==
  IF parts = <<>> THEN <<>>
  ELSE IF Len(parts) = 1 THEN parts[1]
  ELSE parts[1] \o sep \o Join(Tail(parts), sep)

(***************************************************************************)
(* The Redis keyspace: a key is absent, a string or a list, and may carry  *)
(* an expiration.  A list key never exists empty.                          *)
(***************************************************************************)
SessionIds == {<<"1">>, <<"2">>}

getSessionKey(sessionId) == <<"session:">> \o sessionId
getHistoryKey(sessionId) == <<"history:">> \o sessionId

Keys == {getSessionKey(s) : s \in SessionIds} \cup {getHistoryKey(s) : s \in SessionIds}

\* the defaults of SESSION_TTL and CHAT_HISTORY_TTL, in seconds
sessionTTL == 3600
historyTTL == 7200

\* ttl is the time to live a key was given, 0 when it has no expiration
Absent == [kind |-> "none", val |-> <<>>, ttl |-> 0]

\* JSON.stringify / JSON.parse of a message object {user, bot, timestamp}
Stringify(m) == <<"json", m.user, m.bot, m.timestamp>>
Parse(j) == [user |-> j[2], bot |-> j[3], timestamp |-> j[4]]

\* LPUSH key element: the element becomes the head; a new key has no expiration
RPushMutant(db, key, elem) ==
  [db EXCEPT ![key] = [kind |-> "list", val |-> Append(db[key].val, elem),
                       ttl |-> db[key].ttl]]
LPush(db, key, elem) ==
  [db EXCEPT ![key] = [kind |-> "list", val |-> <<elem>> \o db[key].val,
                       ttl |-> db[key].ttl]]

\* EXPIRE key seconds: no effect on an absent key
Expire(db, key, seconds) ==
  IF db[key].kind = "none" THEN db ELSE [db EXCEPT ![key].ttl = seconds]

\* SET key value EX seconds
SetNothingMutant(db, key, value, seconds) == db
SetEx(db, key, value, seconds) ==
  [db EXCEPT ![key] = [kind |-> "string", val |-> value, ttl |-> seconds]]

\* LRANGE key 0 -1: the whole list, head first; an absent key is the empty list
LRange(db, key) == IF db[key].kind = "list" THEN db[key].val ELSE <<>>

\* DEL key [key ...]: removes the keys that exist, ignores the others
DelFirstOnlyMutant(db, keys) ==
  [k \in DOMAIN db |-> IF keys # <<>> /\ k = keys[1] THEN Absent ELSE db[k]]
Del(db, keys) ==
  [k \in DOMAIN db |-> IF \E i \in 1..Len(keys) : keys[i] = k THEN Absent ELSE db[k]]

(***************************************************************************)
(* RedisService.getHistory: the list, parsed, oldest first.                *)
(***************************************************************************)
getHistory(db, sessionId) ==
  LET messages == LRange(db, getHistoryKey(sessionId))
      reversed == Reverse(messages)
  IN  [i \in 1..Len(reversed) |-> Parse(reversed[i])]

(***************************************************************************)
(* GeminiService.                                                          *)
(***************************************************************************)
Fallback == <<"I apologize, but I'm having trouble processing your request right now. Please try again or rephrase your question.">>

\* what the generation API can answer: a transport error, a body without a
\* candidate text (malformed, or blocked by a safety setting), or a text
GeminiReplies ==
  { [kind |-> "error", text |-> Undef],
    [kind |-> "data", text |-> Undef],
    [kind |-> "data", text |-> Str(<<>>)],
    [kind |-> "data", text |-> Str(<<"r">>)],
    [kind |-> "data", text |-> Str(<<" ", "r", "\n">>)] }

buildRAGPrompt(userQuery, context) ==
  <<"You are a helpful news chatbot assistant. [...]\n\nContext from recent news articles:\n">>
    \o context \o <<"\n\nUser Question: ">> \o userQuery
    \o <<"\n\nInstructions: [...]\n\nResponse:">>

\* generateResponse once the API has answered with reply
NoFallbackMutant(reply) ==
  IF reply.kind = "data" /\ Truthy(reply.text) THEN Trim(reply.text.s) ELSE <<>>
generateResponse(reply) ==
  IF reply.kind = "data" /\ Truthy(reply.text) THEN Trim(reply.text.s) ELSE Fallback

(***************************************************************************)
(* EmbeddingService.embedText and QdrantService.search, as the chat        *)
(* handler sees them.                                                      *)
(***************************************************************************)
\* the vector the provider computes for a text
Embedding(text) == <<"vec">> \o text

\* embedText throws before any request when the text is empty or blank
embedTextRejects(text) == ~Truthy(text) \/ Len(Trim(text.s)) = 0

\* what the embedding API can answer
JinaReplies == {"ok", "error", "nodata"}

Doc(content) == [payload |-> [content |-> content]]

\* what the vector store can answer to a search: an error, or up to 5 hits
SearchReplies ==
  { [kind |-> "error", hits |-> <<>>],
    [kind |-> "hits", hits |-> <<>>],
    [kind |-> "hits", hits |-> <<Doc(<<"x">>)>>],
    [kind |-> "hits", hits |-> <<Doc(<<"y">>), Doc(<<"x">>)>>] }

\* search(queryEmbedding, 5): the request QdrantService.search sends, with
\* the default threshold 0.7 (in tenths)
topK == 5
thresholdTenths == 7
NoQuery == [vector |-> <<>>, limit |-> 0, score_threshold |-> 0, with_payload |-> FALSE]
searchRequest(queryVector) ==
  [vector |-> queryVector, limit |-> topK, score_threshold |-> thresholdTenths,
   with_payload |-> TRUE]

\* relevantDocs.map(doc => doc.payload.content).join('\n\n')
SingleNewlineMutant(relevantDocs) ==
  Join([i \in 1..Len(relevantDocs) |-> relevantDocs[i].payload.content], <<"\n">>)
Context(relevantDocs) ==
  Join([i \in 1..Len(relevantDocs) |-> relevantDocs[i].payload.content], <<"\n", "\n">>)

(***************************************************************************)
(* The server: each of Procs is one invocation slot of the POST /api/chat  *)
(* handler; the handler runs from one await to the next without            *)
(* interruption, and the handlers of different requests interleave at the  *)
(* awaits.                                                                 *)
(***************************************************************************)
Procs == {"p1", "p2"}

\* the request bodies a client may send
SessionIdInputs == {Undef, Str(<<>>)} \cup {Str(s) : s \in SessionIds}
MessageInputs == {Undef, Str(<<>>), Str(<<" ">>), Str(<<"a">>), Str(<<" ", "b">>)}

VARIABLES
  redis,      \* the keyspace of the cache
  pc,         \* where each chat handler stands
  rq,         \* the locals of each chat handler
  res,        \* the HTTP response of each chat handler
  nreq,       \* chat requests accepted so far
  server,     \* the server process, and whether it was told to stop
  eb,         \* one call of EmbeddingService.embedBatch
  qd,         \* the vector store's collections and the callers of ensureCollection
  ing         \* one run of the ingestion script

chatVars == <<redis, pc, rq, res, nreq, server>>

\* new Date().toISOString(): the code stores the reading and never looks at
\* it again, so every reading is the same opaque instant
Now == "2026-01-01T00:00:00.000Z"

NoRes == [status |-> 0, body |-> <<>>]

IdleRq ==
  [ sessionId |-> Undef, message |-> Undef, query |-> NoQuery,
    context |-> <<>>, prompt |-> <<>>,
    data |-> [user |-> <<>>, bot |-> <<>>, timestamp |-> ""],
    calls |-> {}, genFailed |-> FALSE, threw |-> "", pos |-> 0, base |-> 0 ]

\* a handler that has answered: its locals are gone.  History: calls are the
\* external calls it made, threw the call whose error its catch block caught
Ended(r, step) == [IdleRq EXCEPT !.calls = r.calls, !.threw = step]

\* the process listens; history: no request came in after a SIGINT
Listening == [state |-> "running", acceptedAfterSignal |-> FALSE]

\* the process has not exited
Alive == server.state # "exited"

ChatInit ==
  /\ server = Listening
  /\ redis = [k \in Keys |-> Absent]
  /\ pc = [p \in Procs |-> "idle"]
  /\ rq = [p \in Procs |-> IdleRq]
  /\ res = [p \in Procs |-> NoRes]
  /\ nreq = 0

\* the catch block of the chat handler
Fail500(p, step) ==
  /\ pc' = [pc EXCEPT ![p] = "done"]
  /\ rq' = [rq EXCEPT ![p] = Ended(rq[p], step)]
  /\ res' = [res EXCEPT ![p] = [status |-> 500,
                                body |-> [error |-> "Failed to process message"]]]

\* history bookkeeping: the list of sessionId was removed, so the positions
\* recorded for its entries no longer name anything
Forget(r, sids) == IF r.sessionId.s \in sids /\ r.sessionId.type = "string"
                   THEN [r EXCEPT !.pos = 0, !.base = 0] ELSE r

\* if (!sessionId || !message)
SessionOnlyMutant(sessionId, message) == ~Truthy(sessionId)
MissingField(sessionId, message) == ~Truthy(sessionId) \/ ~Truthy(message)

\* POST /api/chat: from the request to the first await
ChatStart(p, sessionId, message) ==
  /\ pc[p] \in {"idle", "done"}
  /\ nreq < MaxReq
  /\ nreq' = nreq + 1
  /\ redis' = redis
  /\ LET r == [IdleRq EXCEPT !.sessionId = sessionId, !.message = message,
                             !.base = IF Truthy(sessionId)
                                      THEN Len(LRange(redis, getHistoryKey(sessionId.s)))
                                      ELSE 0]
     IN  IF MissingField(sessionId, message)
         THEN /\ pc' = [pc EXCEPT ![p] = "done"]
              /\ rq' = [rq EXCEPT ![p] = Ended(r, "")]
              /\ res' = [res EXCEPT ![p] = [status |-> 400,
                           body |-> [error |-> "Session ID and message are required"]]]
         ELSE IF embedTextRejects(message)
         THEN /\ pc' = [pc EXCEPT ![p] = "done"]
              /\ rq' = [rq EXCEPT ![p] = Ended(r, "embed")]
              /\ res' = [res EXCEPT ![p] = [status |-> 500,
                           body |-> [error |-> "Failed to process message"]]]
         ELSE /\ pc' = [pc EXCEPT ![p] = "embed"]
              /\ rq' = [rq EXCEPT ![p] = [r EXCEPT !.calls = {"embed"}]]
              /\ res' = [res EXCEPT ![p] = NoRes]
  /\ Alive
  /\ server' = [server EXCEPT !.acceptedAfterSignal = @ \/ server.state = "quitting"]
  /\ UNCHANGED <<eb, qd, ing>>

\* the embedding API answers; on success the search is sent
EmbedReturn(p, reply) ==
  /\ pc[p] = "embed"
  /\ UNCHANGED <<redis, nreq>>
  /\ IF reply = "ok"
     THEN /\ pc' = [pc EXCEPT ![p] = "search"]
          /\ rq' = [rq EXCEPT ![p].query = searchRequest(Embedding(Trim(rq[p].message.s))),
                              ![p].calls = @ \cup {"search"}]
          /\ res' = res
     ELSE Fail500(p, "embed")
  /\ Alive
  /\ UNCHANGED <<eb, qd, ing, server>>

\* the vector store answers; on success the context is built and the
\* generation request is sent
SwallowSearchErrorMutant(p, reply) ==
  /\ pc[p] = "search"
  /\ UNCHANGED <<redis, nreq, res>>
  /\ pc' = [pc EXCEPT ![p] = "generate"]
  /\ rq' = [rq EXCEPT ![p].query = NoQuery,
                      ![p].context = Context(reply.hits),
                      ![p].prompt = buildRAGPrompt(rq[p].message.s, Context(reply.hits)),
                      ![p].calls = @ \cup {"generate"}]
  /\ Alive
  /\ UNCHANGED <<eb, qd, ing, server>>
SearchReturn(p, reply) ==
  /\ pc[p] = "search"
  /\ UNCHANGED <<redis, nreq>>
  /\ IF reply.kind = "hits"
     THEN /\ pc' = [pc EXCEPT ![p] = "generate"]
          /\ rq' = [rq EXCEPT ![p].query = NoQuery,
                              ![p].context = Context(reply.hits),
                              ![p].prompt = buildRAGPrompt(rq[p].message.s, Context(reply.hits)),
                              ![p].calls = @ \cup {"generate"}]
          /\ res' = res
     ELSE Fail500(p, "search")
  /\ Alive
  /\ UNCHANGED <<eb, qd, ing, server>>

\* the generation API answers; generateResponse never throws, and addMessage
\* sends its first command
GenerateReturn(p, reply) ==
  /\ pc[p] = "generate"
  /\ UNCHANGED <<redis, nreq, res>>
  /\ pc' = [pc EXCEPT ![p] = "lpush"]
  /\ rq' = [rq EXCEPT ![p].data = [user |-> rq[p].message.s,
                                   bot |-> generateResponse(reply),
                                   timestamp |-> Now],
                      ![p].context = <<>>,
                      ![p].prompt = <<>>,
                      ![p].genFailed = ~(reply.kind = "data" /\ Truthy(reply.text)),
                      ![p].calls = @ \cup {"lPush"}]
  /\ Alive
  /\ UNCHANGED <<eb, qd, ing, server>>

\* RedisService.addMessage, first command: LPUSH history:<id> <json>
DoublePushMutant(p, ok) ==
  /\ pc[p] = "lpush"
  /\ nreq' = nreq
  /\ IF ok
     THEN LET key == getHistoryKey(rq[p].sessionId.s)
              db == LPush(LPush(redis, key, Stringify(rq[p].data)), key, Stringify(rq[p].data))
          IN  /\ redis' = db
              /\ pc' = [pc EXCEPT ![p] = "expire"]
              /\ rq' = [rq EXCEPT ![p].pos = Len(db[key].val),
                                  ![p].calls = @ \cup {"expire"}]
              /\ res' = res
     ELSE /\ redis' = redis
          /\ Fail500(p, "lPush")
  /\ Alive
  /\ UNCHANGED <<eb, qd, ing, server>>
AddMessageLPush(p, ok) ==
  /\ pc[p] = "lpush"
  /\ nreq' = nreq
  /\ IF ok
     THEN LET key == getHistoryKey(rq[p].sessionId.s)
              db == LPush(redis, key, Stringify(rq[p].data))
          IN  /\ redis' = db
              /\ pc' = [pc EXCEPT ![p] = "expire"]
              /\ rq' = [rq EXCEPT ![p].pos = Len(db[key].val),
                                  ![p].calls = @ \cup {"expire"}]
              /\ res' = res
     ELSE /\ redis' = redis
          /\ Fail500(p, "lPush")
  /\ Alive
  /\ UNCHANGED <<eb, qd, ing, server>>

\* RedisService.addMessage, second command: EXPIRE history:<id> historyTTL
AddMessageExpire(p, ok) ==
  /\ pc[p] = "expire"
  /\ nreq' = nreq
  /\ IF ok
     THEN /\ redis' = Expire(redis, getHistoryKey(rq[p].sessionId.s), historyTTL)
          /\ pc' = [pc EXCEPT ![p] = "set"]
          /\ rq' = [rq EXCEPT ![p].calls = @ \cup {"set"}]
          /\ res' = res
     ELSE /\ redis' = redis
          /\ Fail500(p, "expire")
  /\ Alive
  /\ UNCHANGED <<eb, qd, ing, server>>

\* RedisService.addMessage, third command: SET session:<id> <now> EX sessionTTL,
\* then res.json({ response, sessionId })
AddMessageSet(p, ok) ==
  /\ pc[p] = "set"
  /\ nreq' = nreq
  /\ IF ok
     THEN /\ redis' = SetEx(redis, getSessionKey(rq[p].sessionId.s), Now, sessionTTL)
          /\ pc' = [pc EXCEPT ![p] = "done"]
          /\ rq' = [rq EXCEPT ![p] = Ended(rq[p], "")]
          /\ res' = [res EXCEPT ![p] = [status |-> 200,
                       body |-> [response |-> rq[p].data.bot,
                                 sessionId |-> rq[p].sessionId.s]]]
     ELSE /\ redis' = redis
          /\ Fail500(p, "set")
  /\ Alive
  /\ UNCHANGED <<eb, qd, ing, server>>

\* GET /api/history/:sessionId: the response, given whether LRANGE succeeds
MissingKeyThrowsMutant(db, sessionId, ok) ==
  IF ok /\ db[getHistoryKey(sessionId)].kind = "list"
  THEN [status |-> 200, body |-> [history |-> getHistory(db, sessionId)]]
  ELSE [status |-> 500, body |-> [error |-> "Failed to retrieve history"]]
HistoryResponse(db, sessionId, ok) ==
  IF ok
  THEN [status |-> 200, body |-> [history |-> getHistory(db, sessionId)]]
  ELSE [status |-> 500, body |-> [error |-> "Failed to retrieve history"]]

\* GET /api/history/:sessionId: the handler reads the cache and answers
\* response; it writes nothing
GetHistory(sessionId, ok, response) ==
  /\ response = HistoryResponse(redis, sessionId, ok)
  /\ UNCHANGED <<redis, pc, rq, res, nreq>>
  /\ Alive
  /\ UNCHANGED <<eb, qd, ing, server>>

\* RedisService.clearSession: one DEL of both keys
clearSession(db, sessionId) ==
  Del(db, <<getHistoryKey(sessionId), getSessionKey(sessionId)>>)

\* DELETE /api/history/:sessionId: the response, given whether DEL succeeds
ClearResponse(ok) ==
  IF ok
  THEN [status |-> 200, body |-> [success |-> TRUE]]
  ELSE [status |-> 500, body |-> [error |-> "Failed to clear session"]]

\* DELETE /api/history/:sessionId
ClearSession(sessionId, ok) ==
  /\ IF ok
     THEN /\ redis' = clearSession(redis, sessionId)
          /\ rq' = [p \in Procs |-> Forget(rq[p], {sessionId})]
     ELSE /\ redis' = redis
          /\ rq' = rq
  /\ UNCHANGED <<pc, res, nreq>>
  /\ Alive
  /\ UNCHANGED <<eb, qd, ing, server>>

\* a key that carries an expiration reaches it
KeyExpires(key) ==
  /\ redis[key].kind # "none"
  /\ redis[key].ttl > 0
  /\ redis' = [redis EXCEPT ![key] = Absent]
  /\ LET gone == {s \in SessionIds : getHistoryKey(s) = key}
     IN  rq' = [p \in Procs |-> Forget(rq[p], gone)]
  /\ UNCHANGED <<pc, res, nreq>>
  /\ UNCHANGED <<eb, qd, ing, server>>

\* process.on('SIGINT'): the handler logs and calls redisService.disconnect(),
\* which sends QUIT; the HTTP server is not closed and goes on listening
Sigint ==
  /\ server.state = "running"
  /\ server' = [server EXCEPT !.state = "quitting"]
  /\ UNCHANGED <<redis, pc, rq, res, nreq, eb, qd, ing>>

\* disconnect() has returned (or thrown): process.exit(0), or the crash on
\* the unhandled rejection, ends the process and with it every handler
Exit ==
  /\ server.state = "quitting"
  /\ server' = [server EXCEPT !.state = "exited"]
  /\ UNCHANGED <<redis, pc, rq, res, nreq, eb, qd, ing>>

ChatNext ==
  \/ \E p \in Procs, sessionId \in SessionIdInputs, message \in MessageInputs :
       ChatStart(p, sessionId, message)
  \/ \E p \in Procs, reply \in JinaReplies : EmbedReturn(p, reply)
  \/ \E p \in Procs, reply \in SearchReplies : SearchReturn(p, reply)
  \/ \E p \in Procs, reply \in GeminiReplies : GenerateReturn(p, reply)
  \/ \E p \in Procs, ok \in BOOLEAN : AddMessageLPush(p, ok)
  \/ \E p \in Procs, ok \in BOOLEAN : AddMessageExpire(p, ok)
  \/ \E p \in Procs, ok \in BOOLEAN : AddMessageSet(p, ok)
  \/ \E sessionId \in SessionIds, ok \in BOOLEAN :
       GetHistory(sessionId, ok, HistoryResponse(redis, sessionId, ok))
  \/ \E sessionId \in SessionIds, ok \in BOOLEAN : ClearSession(sessionId, ok)
  \/ \E key \in Keys : KeyExpires(key)

(***************************************************************************)
(* EmbeddingService.embedBatch, one call of it: eb.texts is the argument,  *)
(* eb.request the body posted to the provider (history: none while         *)
(* nothing was posted), eb.result what the call returns or throws.         *)
(***************************************************************************)
\* the longest argument list of a modelled call
MaxTexts == 2

\* the entries a list of texts may hold: null, '', blank, and two texts
TextValues == {Undef, Str(<<>>), Str(<<" ">>), Str(<<"\n", " ">>), Str(<<"a">>), Str(<<" ", "b">>)}

RECURSIVE ListsUpTo(_, _)
ListsUpTo(S, n) ==
  IF n = 0 THEN {<<>>}
  ELSE LET shorter == ListsUpTo(S, n - 1)
       IN  shorter \cup {Append(l, x) : l \in {m \in shorter : Len(m) = n - 1}, x \in S}

NoRequest == [sent |-> FALSE, input |-> <<>>]

\* texts.filter(text => text && text.trim().length > 0)
IsValidText(text) == Truthy(text) /\ Len(Trim(text.s)) > 0
NoTrimMutant(texts) == SelectSeq(texts, Truthy)
validTexts(texts) == SelectSeq(texts, IsValidText)

\* !texts || texts.length === 0
NoTexts(arg) == arg.type = "undefined" \/ Len(arg.list) = 0

EmbedError(message) ==
  [kind |-> "error", message |-> <<"Failed to generate batch embeddings: ", message>>,
   vectors |-> <<>>]

\* what embedBatch throws before it posts anything, if it does
embedBatchRejects(arg) == NoTexts(arg) \/ Len(validTexts(arg.list)) = 0
embedBatchRejection(arg) ==
  IF NoTexts(arg) THEN EmbedError("Texts array cannot be empty")
  ELSE EmbedError("No valid texts to embed")

\* what embedBatch returns once the provider has answered the posted input
embedBatchResult(input, reply) ==
  IF reply = "ok"
  THEN [kind |-> "vectors", message |-> <<>>,
        vectors |-> [i \in 1..Len(input) |-> Embedding(input[i].s)]]
  ELSE IF reply = "nodata"
  THEN EmbedError("Invalid response format from Jina API")
  ELSE EmbedError("Request failed")

EbIdle == [pc |-> "off", texts |-> Undef, request |-> NoRequest,
           result |-> [kind |-> "none", message |-> <<>>, vectors |-> <<>>]]

EmbedArgs ==
  {[type |-> "undefined", list |-> <<>>]}
    \cup {[type |-> "array", list |-> l] : l \in ListsUpTo(TextValues, MaxTexts)}

\* embedBatch(texts): up to the post
EmbedBatchCall ==
  /\ eb.pc = "call"
  /\ IF embedBatchRejects(eb.texts)
     THEN eb' = [eb EXCEPT !.pc = "done", !.result = embedBatchRejection(eb.texts)]
     ELSE eb' = [eb EXCEPT !.pc = "posted",
                           !.request = [sent |-> TRUE, input |-> validTexts(eb.texts.list)]]
  /\ UNCHANGED <<chatVars, qd, ing>>

\* the provider answers
EmbedBatchReturn(reply) ==
  /\ eb.pc = "posted"
  /\ eb' = [eb EXCEPT !.pc = "done", !.result = embedBatchResult(eb.request.input, reply)]
  /\ UNCHANGED <<chatVars, qd, ing>>

(***************************************************************************)
(* QdrantService.ensureCollection.  qd.collections is the store's list of  *)
(* collections; the server and the ingestion script each call initialize,  *)
(* and so ensureCollection, against the same store.                        *)
(***************************************************************************)
\* calls of ensureCollection one caller makes
MaxEnsure == 2

collectionName == "news_articles"
vectorSize == 768

Callers == {"server", "ingest"}

Collection(name, size, distance) ==
  [name |-> name, vectors |-> [size |-> size, distance |-> distance]]

\* what the store may hold when the first caller starts
InitialCollections ==
  { {},
    {Collection("other", 4, "Dot")},
    {Collection(collectionName, vectorSize, "Cosine")},
    {Collection(collectionName, 384, "Dot"), Collection("other", 4, "Dot")} }

\* collections.collections.some(col => col.name === this.collectionName)
AlwaysAbsentMutant(collections) == FALSE
collectionExists(collections) == \E col \in collections : col.name = collectionName

\* the store creates a collection of a new name and refuses a name it holds
StoreCreates(collections, name) == ~\E col \in collections : col.name = name

QdIdle ==
  [ collections |-> {},
    pc |-> [c \in Callers |-> "off"],
    n |-> [c \in Callers |-> 0],
    prev |-> [c \in Callers |-> "none"],
    prevCreated |-> [c \in Callers |-> FALSE],
    created |-> [c \in Callers |-> FALSE],
    \* the points of the collection
    points |-> {},
    \* history: the store did not hold the collection at the start
    wasAbsent |-> FALSE ]

\* ensureCollection(): getCollections is sent
EnsureCall(c) ==
  /\ qd.pc[c] \in {"idle", "ok", "error"}
  /\ qd.n[c] < MaxEnsure
  /\ qd' = [qd EXCEPT !.pc[c] = "listing",
                      !.n[c] = @ + 1,
                      !.prev[c] = IF qd.pc[c] = "idle" THEN "none" ELSE qd.pc[c],
                      !.prevCreated[c] = qd.created[c],
                      !.created[c] = FALSE]
  /\ UNCHANGED <<chatVars, eb, ing>>

\* getCollections answers: the collection is looked up in the list, and
\* createCollection is sent when it is not there
GetCollectionsReturn(c, ok) ==
  /\ qd.pc[c] = "listing"
  /\ IF ~ok
     THEN qd' = [qd EXCEPT !.pc[c] = "error"]
     ELSE IF collectionExists(qd.collections)
     THEN qd' = [qd EXCEPT !.pc[c] = "ok"]
     ELSE qd' = [qd EXCEPT !.pc[c] = "creating", !.created[c] = TRUE]
  /\ UNCHANGED <<chatVars, eb, ing>>

\* createCollection answers
CreateCollectionReturn(c, ok) ==
  /\ qd.pc[c] = "creating"
  /\ IF ok /\ StoreCreates(qd.collections, collectionName)
     THEN qd' = [qd EXCEPT !.pc[c] = "ok",
                           !.collections = @ \cup {Collection(collectionName, vectorSize, "Cosine")}]
     ELSE qd' = [qd EXCEPT !.pc[c] = "error"]
  /\ UNCHANGED <<chatVars, eb, ing>>

(***************************************************************************)
(* scripts/ingestNews.js: one run of NewsIngestion.ingestArticles.  The    *)
(* script is one sequential flow; its steps are the answers of the feeds,  *)
(* of the embedding provider and of the vector store.                      *)
(***************************************************************************)
\* feeds a modelled run visits: the first NumFeeds of the configured ones
NumFeeds == 3
\* the longest item list a feed returns
MaxFeedItems == 11

\* the longest title of a feed item
MaxTitleLength == 8500
\* the runs of the ingestion script, one after the other
MaxRuns == 2

retries == 2
itemsPerFeed == 10
maxArticles == 50
batchSize == 10
maxContentLength == 8000
payloadContentLength == 1000

feeds ==
  << "https://feeds.bbci.co.uk/news/rss.xml",
     "https://rss.cnn.com/rss/cnn_topstories.rss",
     "https://feeds.npr.org/1001/rss.xml",
     "https://rss.cnn.com/rss/cnn_world.rss",
     "https://feeds.bbci.co.uk/news/business/rss.xml" >>

Min(a, b) == IF a < b THEN a ELSE b

\* s.substring(0, n)
Substring(s, n) == SubSeq(s, 1, Min(n, Len(s)))

Numeral(n) == <<"0", "1", "2", "3", "4", "5", "6", "7", "8", "9", "10", "11", "12", "13">>[n + 1]

IsTag(c) == c \in {"<p>", "</p>", "<br>"}

RECURSIVE CollapseSpaces(_)
\* .replace(/\s+/g, ' ')
CollapseSpaces(s) ==
  IF s = <<>> THEN <<>>
  ELSE IF IsSpace(Head(s))
  THEN <<" ">> \o CollapseSpaces(TrimStart(s))
  ELSE <<Head(s)>> \o CollapseSpaces(Tail(s))

\* cleanHtmlContent: the text of the markup, whitespace collapsed, trimmed
cleanHtmlContent(html) ==
  IF html = <<>> THEN <<>>
  ELSE Trim(CollapseSpaces(SelectSeq(html, LAMBDA c : ~IsTag(c))))

\* a feed item with a title and a marked-up description
Item(f, j) ==
  [ title |-> <<"t", Numeral(f), ".", Numeral(j)>>,
    description |-> <<"<p>", "d", "\n", " ", Numeral(j), "</p>">>,
    content |-> <<>>,
    link |-> <<"l", Numeral(f), ".", Numeral(j)>>,
    pubDate |-> <<>> ]

\* a feed item without title whose description is markup around a blank
BlankItem(f) ==
  [ title |-> <<>>, description |-> <<"<p>", " ", "</p>">>, content |-> <<"<br>">>,
    link |-> <<"l", Numeral(f), ".", "0">>, pubDate |-> <<>> ]

\* what parser.parseURL may give for feed f: an error, or a feed
FeedReplies(f) ==
  { [kind |-> "error", items |-> <<>>],
    [kind |-> "feed", items |-> <<>>],
    [kind |-> "feed", items |-> <<BlankItem(f), Item(f, 1)>>],
    [kind |-> "feed", items |-> [j \in 1..MaxFeedItems |-> Item(f, j)]] }

\* processArticle(item, feedIndex), with the counter's value as the id
processArticle(item, f, id) ==
  LET cleanDescription == cleanHtmlContent(item.description)
      cleanContent == cleanHtmlContent(item.content)
      withDescription ==
        IF cleanDescription # <<>>
        THEN item.title \o <<"\n", "\n">> \o cleanDescription ELSE item.title
      combinedText ==
        IF cleanContent # <<>> /\ cleanContent # cleanDescription
        THEN withDescription \o <<"\n", "\n">> \o cleanContent ELSE withDescription
  IN  [ id |-> id,
        title |-> item.title,
        description |-> cleanDescription,
        content |-> IF Len(combinedText) > maxContentLength
                    THEN Substring(combinedText, maxContentLength) \o <<".", ".", ".">>
                    ELSE combinedText,
        link |-> item.link,
        pubDate |-> IF item.pubDate # <<>> THEN item.pubDate ELSE <<Now>>,
        source |-> IF f <= Len(feeds) THEN feeds[f] ELSE "unknown" ]

NoVector == <<"undefined">>

\* the document ingestArticles builds from article and embeddings[j]
Document(article, embeddings, j) ==
  [ id |-> article.id,
    vector |-> IF j <= Len(embeddings) THEN embeddings[j] ELSE NoVector,
    payload |-> [ title |-> article.title,
                  description |-> article.description,
                  content |-> Substring(article.content, payloadContentLength),
                  link |-> article.link,
                  pubDate |-> article.pubDate,
                  source |-> article.source,
                  ingested_at |-> Now ] ]

IngIdle ==
  [ pc |-> "off", run |-> 1, i |-> 1, attempt |-> 1, articleCounter |-> 1,
    allArticles |-> <<>>, articles |-> <<>>, b |-> 0, documents |-> <<>>,
    outcome |-> "",
    \* history
    tried |-> [f \in 1..NumFeeds |-> 0],
    fetched |-> [f \in 1..NumFeeds |-> "none"],
    got |-> [f \in 1..NumFeeds |-> <<>>],
    batches |-> <<>>,
    upserts |-> <<>> ]

IngStart == [IngIdle EXCEPT !.pc = "fetch"]

\* fetchAllArticles after fetchFeed has returned items for feed st.i: the
\* first itemsPerFeed items are processed and appended, and the loop goes to
\* the next feed; after the last feed ingestArticles goes on with the articles
CounterStuckMutant(st, items) ==
  LET taken == Substring(items, itemsPerFeed)
      processed == [j \in 1..Len(taken) |->
                      processArticle(taken[j], st.i, st.articleCounter + j - 1)]
      all == st.allArticles \o processed
      next == [st EXCEPT !.allArticles = all,
                         !.i = @ + 1,
                         !.attempt = 1]
  IN  IF st.i < NumFeeds THEN next
      ELSE LET articles == Substring(all, maxArticles)
           IN  IF Len(articles) = 0
               THEN [next EXCEPT !.pc = "done", !.outcome = "ok"]
               ELSE [next EXCEPT !.pc = "embed", !.articles = articles]
AddItems(st, items) ==
  LET taken == Substring(items, itemsPerFeed)
      processed == [j \in 1..Len(taken) |->
                      processArticle(taken[j], st.i, st.articleCounter + j - 1)]
      all == st.allArticles \o processed
      next == [st EXCEPT !.allArticles = all,
                         !.articleCounter = @ + Len(taken),
                         !.i = @ + 1,
                         !.attempt = 1]
  IN  IF st.i < NumFeeds THEN next
      ELSE LET articles == Substring(all, maxArticles)
           IN  IF Len(articles) = 0
               THEN [next EXCEPT !.pc = "done", !.outcome = "ok"]
               ELSE [next EXCEPT !.pc = "embed", !.articles = articles]

\* fetchFeed's catch block: the last attempt gives up with no items, an
\* earlier one waits and tries again
FetchFailedAbortsMutant(st) ==
  IF st.attempt = retries
  THEN [st EXCEPT !.pc = "done", !.outcome = "error", !.fetched[st.i] = "failed"]
  ELSE [st EXCEPT !.attempt = @ + 1]
FetchFailed(st) ==
  IF st.attempt = retries
  THEN AddItems([st EXCEPT !.fetched[st.i] = "failed"], <<>>)
  ELSE [st EXCEPT !.attempt = @ + 1]

\* parser.parseURL answers attempt ing.attempt on feed ing.i
FetchAttempt(reply) ==
  /\ ing.pc = "fetch"
  /\ LET st == [ing EXCEPT !.tried[ing.i] = @ + 1]
     IN  ing' = IF reply.kind = "feed"
                THEN AddItems([st EXCEPT !.fetched[ing.i] = "ok",
                                         !.got[ing.i] = reply.items], reply.items)
                ELSE FetchFailed(st)
  /\ UNCHANGED <<chatVars, eb, qd>>

\* the for loop of ingestArticles after the batch at st.b: the next batch, or
\* past the last one the insert, or the return when there are no documents
NextBatch(st) ==
  LET next == [st EXCEPT !.b = @ + batchSize]
  IN  IF next.b < Len(st.articles) THEN next
      ELSE IF Len(st.documents) = 0
      THEN [next EXCEPT !.pc = "done", !.outcome = "ok"]
      ELSE [next EXCEPT !.pc = "upsert"]

\* the catch block around a batch: logged, and the loop continues
BatchFailedAbortsMutant(st) ==
  [st EXCEPT !.batches = Append(@, [start |-> st.b, ok |-> FALSE]),
             !.pc = "done", !.outcome = "error"]
BatchFailed(st) ==
  NextBatch([st EXCEPT !.batches = Append(@, [start |-> st.b, ok |-> FALSE])])

\* the batch at ing.b is embedded; reply is the provider's answer if asked
EmbedBatchOfArticles(reply) ==
  /\ ing.pc = "embed"
  /\ LET batch == SubSeq(ing.articles, ing.b + 1, Min(ing.b + batchSize, Len(ing.articles)))
         texts == [type |-> "array", list |-> [j \in 1..Len(batch) |-> Str(batch[j].content)]]
         result == IF embedBatchRejects(texts) THEN embedBatchRejection(texts)
                   ELSE embedBatchResult(validTexts(texts.list), reply)
     IN  ing' = IF result.kind = "vectors"
                THEN NextBatch([ing EXCEPT
                       !.documents = @ \o [j \in 1..Len(batch) |->
                                             Document(batch[j], result.vectors, j)],
                       !.batches = Append(@, [start |-> ing.b, ok |-> TRUE])])
                ELSE BatchFailed(ing)
  /\ UNCHANGED <<chatVars, eb, qd>>

\* client.upsert(collectionName, {points}): a point takes the place of the
\* stored point of the same id
Upsert(stored, documents) ==
  {pt \in stored : \A d \in 1..Len(documents) : documents[d].id # pt.id}
    \cup {documents[d] : d \in 1..Len(documents)}

\* qdrantService.insertDocuments(documents) answers; a failure is rethrown
\* by ingestArticles, the document count that follows cannot throw
InsertDocumentsReturn(ok) ==
  /\ ing.pc = "upsert"
  /\ ing' = [ing EXCEPT !.upserts = Append(@, [points |-> ing.documents, ok |-> ok]),
                        !.pc = "done",
                        !.outcome = IF ok THEN "ok" ELSE "error"]
  /\ qd' = IF ok THEN [qd EXCEPT !.points = Upsert(@, ing.documents)] ELSE qd
  /\ UNCHANGED <<chatVars, eb>>

\* the script is started again: a new process and a new NewsIngestion, whose
\* counter is 1 again; the store keeps its points
NewProcess ==
  /\ ing.pc = "done"
  /\ ing.run < MaxRuns
  /\ ing' = [IngStart EXCEPT !.run = ing.run + 1]
  /\ UNCHANGED <<chatVars, eb, qd>>

vars == <<redis, pc, rq, res, nreq, server, eb, qd, ing>>

(***************************************************************************)
(* The specifications: the chat server, one call of embedBatch, the        *)
(* callers of ensureCollection, and one ingestion run.                     *)
(***************************************************************************)
Init == ChatInit /\ eb = EbIdle /\ qd = QdIdle /\ ing = IngIdle
Next == ChatNext
Spec == Init /\ [][Next]_vars

\* the chat server with the shutdown signal
ShutdownNext == ChatNext \/ Sigint \/ Exit
ShutdownSpec == Init /\ [][ShutdownNext]_vars

ChatOff ==
  /\ server = [Listening EXCEPT !.state = "off"]
  /\ redis = [k \in Keys |-> Absent]
  /\ pc = [p \in Procs |-> "off"]
  /\ rq = [p \in Procs |-> IdleRq]
  /\ res = [p \in Procs |-> NoRes]
  /\ nreq = 0

EmbedInit ==
  /\ ChatOff /\ qd = QdIdle /\ ing = IngIdle
  /\ \E arg \in EmbedArgs : eb = [EbIdle EXCEPT !.pc = "call", !.texts = arg]
EmbedNext ==
  \/ EmbedBatchCall
  \/ \E reply \in JinaReplies : EmbedBatchReturn(reply)
EmbedSpec == EmbedInit /\ [][EmbedNext]_vars

QdrantInit ==
  /\ ChatOff /\ eb = EbIdle /\ ing = IngIdle
  /\ \E cs \in InitialCollections :
       qd = [QdIdle EXCEPT !.collections = cs, !.pc = [c \in Callers |-> "idle"],
                           !.wasAbsent = ~collectionExists(cs)]
QdrantNext ==
  \/ \E c \in Callers : EnsureCall(c)
  \/ \E c \in Callers, ok \in BOOLEAN : GetCollectionsReturn(c, ok)
  \/ \E c \in Callers, ok \in BOOLEAN : CreateCollectionReturn(c, ok)
QdrantSpec == QdrantInit /\ [][QdrantNext]_vars

(***************************************************************************)
(* processArticle and the document built from its article, applied to one  *)
(* feed item: items whose title runs from nothing to MaxTitleLength         *)
(* characters, around the two limits of the code.                          *)
(***************************************************************************)
TitleLengths ==
  { 0, 1, payloadContentLength - 1, payloadContentLength, payloadContentLength + 1,
    maxContentLength - 5, maxContentLength - 4, maxContentLength, maxContentLength + 1,
    MaxTitleLength }

Descriptions == {<<>>, <<"<p>", " ", "</p>">>, <<"<p>", "d", "\n", " ", "e", "</p>">>}

Contents == {<<>>, <<"c">>}

ArticleItems ==
  { [ title |-> [k \in 1..n |-> "t"], description |-> d, content |-> c,
      link |-> <<"l">>, pubDate |-> <<>> ] :
    n \in TitleLengths, d \in Descriptions, c \in Contents }

\* the item is processed as the first of feed 1
ProcessItem ==
  /\ ing.pc = "process"
  /\ ing' = [ing EXCEPT
       !.allArticles = <<processArticle(ing.got[1][1], 1, ing.articleCounter)>>,
       !.articleCounter = @ + 1,
       !.pc = "index"]
  /\ UNCHANGED <<chatVars, eb, qd>>

\* its document is built with the vector the provider gave for its content
IndexArticle ==
  /\ ing.pc = "index"
  /\ LET article == ing.allArticles[1]
     IN  ing' = [ing EXCEPT
           !.documents = <<Document(article, <<Embedding(article.content)>>, 1)>>,
           !.pc = "done", !.outcome = "ok"]
  /\ UNCHANGED <<chatVars, eb, qd>>

ArticleInit ==
  /\ ChatOff /\ eb = EbIdle /\ qd = QdIdle
  /\ \E item \in ArticleItems :
       ing = [IngIdle EXCEPT !.pc = "process", !.got[1] = <<item>>]
ArticleNext == ProcessItem \/ IndexArticle
ArticleSpec == ArticleInit /\ [][ArticleNext]_vars

IngestInit == ChatOff /\ eb = EbIdle /\ qd = QdIdle /\ ing = IngStart
IngestNext ==
  \/ \E reply \in FeedReplies(ing.i) : FetchAttempt(reply)
  \/ \E reply \in JinaReplies : EmbedBatchOfArticles(reply)
  \/ \E ok \in BOOLEAN : InsertDocumentsReturn(ok)
IngestSpec == IngestInit /\ [][IngestNext]_vars

\* ingestion runs one after the other on the same store
RerunNext == IngestNext \/ NewProcess
RerunSpec == IngestInit /\ [][RerunNext]_vars

(***************************************************************************)
(* Properties of the chat server, checked under Spec.                      *)
(***************************************************************************)
\* what GET /api/history/:sessionId answers when the cache answers
History(sessionId) == HistoryResponse(redis, sessionId, TRUE).body.history

RedisCalls == {"lPush", "expire", "set"}

\* the entry a handler has pushed is in the history at the position it took,
\* after every entry that was there when its request came in
C1_Positions ==
  \A p \in Procs :
    rq[p].pos > 0 =>
      LET h == History(rq[p].sessionId.s)
      IN  /\ rq[p].pos <= Len(h)
          /\ h[rq[p].pos] = rq[p].data
          /\ rq[p].pos > rq[p].base

\* a step leaves a session's history alone, removes it whole, or puts the
\* entry of the handler that pushes after all the entries already there
C1_AppendOnly ==
  \A s \in SessionIds :
    LET h == HistoryResponse(redis, s, TRUE).body.history
        h2 == HistoryResponse(redis', s, TRUE).body.history
    IN  \/ h2 = h
        \/ h2 = <<>>
        \/ \E p \in Procs :
             /\ pc[p] = "lpush"
             /\ rq[p].sessionId.s = s
             /\ h2 = Append(h, rq[p].data)

\* C1: chat requests handled one after the other and answered 200 leave one
\* history entry each, and a later history retrieval lists them oldest first,
\* in the order the requests were sent: getHistory is the reverse of the
\* most-recent-first list.
C1_HistoryInOrderSent == [](C1_Positions) /\ [][C1_AppendOnly]_vars

\* two requests of one session answered 200, the second sent after the entry
\* of the first was stored: the history holds the two entries, oldest first
C1_Witness ==
  \E p, q \in Procs, s \in SessionIds :
    /\ p # q
    /\ res[p].status = 200 /\ res[p].body.sessionId = s
    /\ pc[q] = "set" /\ rq[q].sessionId.s = s
    /\ rq[q].base = 1 /\ rq[q].pos = 2
    /\ Len(History(s)) = 2
    /\ History(s)[1].bot = res[p].body.response
    /\ History(s)[1].user # History(s)[2].user
    /\ History(s)[2] = rq[q].data

SessionAbsent(db, s) ==
  /\ db[getHistoryKey(s)].kind = "none"
  /\ db[getSessionKey(s)].kind = "none"

\* C2: for a session whose history does not exist (never created, expired or
\* cleared) history retrieval answers 200 with the empty list, and a history
\* retrieval never changes the cache.
C2_AbsentHistoryIsEmpty ==
  /\ [](\A s \in SessionIds :
          redis[getHistoryKey(s)].kind = "none" =>
            /\ getHistory(redis, s) = <<>>
            /\ HistoryResponse(redis, s, TRUE) = [status |-> 200, body |-> [history |-> <<>>]])
  /\ [][\A s \in SessionIds, ok \in BOOLEAN :
          GetHistory(s, ok, HistoryResponse(redis, s, ok)) => redis' = redis]_vars

\* a session that was answered 200 and whose keys are gone again, beside a
\* session that never existed
C2_Witness ==
  \E p \in Procs :
    /\ res[p].status = 200
    /\ \A s \in SessionIds : SessionAbsent(redis, s)
    /\ \A s \in SessionIds : History(s) = <<>>

\* C3: a successful clearSession(id) leaves neither key of the session, a
\* history retrieval right after it is empty, the keys of every other
\* session are as before, and this is so whether or not the session existed.
C3_ClearRemovesBothKeys ==
  [][\A s \in SessionIds :
       ClearSession(s, TRUE) =>
         /\ ClearResponse(TRUE).status = 200
         /\ SessionAbsent(redis', s)
         /\ HistoryResponse(redis', s, TRUE).body.history = <<>>
         /\ \A k \in Keys \ {getHistoryKey(s), getSessionKey(s)} : redis'[k] = redis[k]]_vars

\* the only request so far has pushed its entry, onto a list that carries no
\* expiration yet, and the list is gone: the session was cleared
C3_Witness ==
  \E p \in Procs :
    /\ nreq = 1
    /\ pc[p] = "expire"
    /\ SessionAbsent(redis, rq[p].sessionId.s)

\* C4: a chat request without session id or without message is answered 400
\* at once: the handler makes no external call and the cache is unchanged.
C4_MissingFieldIs400 ==
  /\ [](\A p \in Procs : res[p].status = 400 => pc[p] = "done" /\ rq[p].calls = {})
  /\ [][\A p \in Procs, sessionId \in SessionIdInputs, message \in MessageInputs :
          (ChatStart(p, sessionId, message) /\ (~Truthy(sessionId) \/ ~Truthy(message))) =>
            /\ res'[p] = [status |-> 400,
                          body |-> [error |-> "Session ID and message are required"]]
            /\ pc'[p] = "done"
            /\ rq'[p].calls = {}
            /\ redis' = redis]_vars

\* a request answered 400 while the session it could have named is active
C4_Witness ==
  \E p \in Procs, s \in SessionIds :
    /\ res[p].status = 400
    /\ Len(History(s)) = 1
    /\ redis[getSessionKey(s)].kind = "string"

\* C5: when generation fails the bot message is the fixed apology; the
\* request is answered 200 with it unless a cache write fails, and the entry
\* stored for the request carries it.
C5_Inv ==
  \A p \in Procs :
    /\ rq[p].genFailed => rq[p].data.bot = Fallback /\ pc[p] \in {"lpush", "expire", "set"}
    /\ (rq[p].genFailed /\ rq[p].pos > 0) =>
         History(rq[p].sessionId.s)[rq[p].pos].bot = Fallback

C5_Step ==
  \A p \in Procs :
    /\ \A reply \in GeminiReplies :
         (GenerateReturn(p, reply) /\ ~(reply.kind = "data" /\ Truthy(reply.text))) =>
           /\ generateResponse(reply) = Fallback
           /\ pc'[p] = "lpush"
           /\ rq'[p].genFailed
           /\ rq'[p].data.bot = Fallback
    /\ (rq[p].genFailed /\ pc'[p] = "done") =>
         \/ /\ res'[p].status = 200
            /\ res'[p].body.response = Fallback
            /\ rq[p].pos > 0 =>
                 HistoryResponse(redis', rq[p].sessionId.s, TRUE).body.history[rq[p].pos].bot
                   = Fallback
         \/ /\ res'[p].status = 500
            /\ rq'[p].threw \in RedisCalls

C5_GenerationFailsSoft == [](C5_Inv) /\ [][C5_Step]_vars

\* a request answered 200 with the apology, which is in the history
C5_Witness ==
  \E p \in Procs :
    /\ res[p].status = 200
    /\ res[p].body.response = Fallback
    /\ Len(History(res[p].body.sessionId)) = 1
    /\ History(res[p].body.sessionId)[1].bot = Fallback

\* the step in which the embedding or the search of handler p fails
EmbedOrSearchFails(p) ==
  \/ \E sessionId \in SessionIdInputs, message \in MessageInputs :
       /\ ChatStart(p, sessionId, message)
       /\ Truthy(sessionId) /\ Truthy(message) /\ embedTextRejects(message)
  \/ \E reply \in JinaReplies : EmbedReturn(p, reply) /\ reply # "ok"
  \/ \E reply \in SearchReplies : SearchReturn(p, reply) /\ reply.kind = "error"

\* C6: when embedding or search fails the request is answered 500 with
\* "Failed to process message"; generation is not called, and the handler
\* writes nothing to the cache.
C6_Inv ==
  \A p \in Procs :
    rq[p].threw \in {"embed", "search"} =>
      /\ res[p] = [status |-> 500, body |-> [error |-> "Failed to process message"]]
      /\ rq[p].calls \cap ({"generate"} \cup RedisCalls) = {}

C6_Step ==
  \A p \in Procs :
    EmbedOrSearchFails(p) =>
      /\ res'[p] = [status |-> 500, body |-> [error |-> "Failed to process message"]]
      /\ rq'[p].threw \in {"embed", "search"}
      /\ "generate" \notin rq'[p].calls
      /\ redis' = redis

C6_EmbedOrSearchFailureIs500 == [](C6_Inv) /\ [][C6_Step]_vars

\* a search that failed while the session is active: the request is answered
\* 500 and the history still holds the one earlier entry
C6_Witness ==
  \E p \in Procs, s \in SessionIds :
    /\ res[p].status = 500
    /\ rq[p].threw = "search"
    /\ rq[p].calls = {"embed", "search"}
    /\ Len(History(s)) = 1

(***************************************************************************)
(* Properties of embedBatch, checked under EmbedSpec.                      *)
(***************************************************************************)
\* null, '' or nothing but whitespace
BlankEntry(text) ==
  text.type = "undefined" \/ \A k \in 1..Len(text.s) : text.s[k] \in {" ", "\n"}

\* no list, the empty list, or a list of blank entries only
NothingToEmbed(arg) ==
  arg.type = "undefined" \/ \A i \in 1..Len(arg.list) : BlankEntry(arg.list[i])

\* C7: embedBatch of an empty list, or of a list whose entries are all empty
\* or whitespace, throws an explicit error and posts nothing to the provider.
C7_EmptyBatchFailsOffline ==
  (eb.pc # "off" /\ NothingToEmbed(eb.texts)) =>
    /\ eb.pc \in {"call", "done"}
    /\ ~eb.request.sent
    /\ eb.pc = "done" =>
         /\ eb.result.kind = "error"
         /\ eb.result.vectors = <<>>
         /\ eb.result.message \in
              { <<"Failed to generate batch embeddings: ", "Texts array cannot be empty">>,
                <<"Failed to generate batch embeddings: ", "No valid texts to embed">> }

\* embedBatch(["", " "]) has thrown
C7_Witness ==
  /\ eb.pc = "done"
  /\ eb.texts = [type |-> "array", list |-> <<Str(<<>>), Str(<<" ">>)>>]
  /\ eb.result.kind = "error"
  /\ ~eb.request.sent

(***************************************************************************)
(* Properties of ensureCollection, checked under QdrantSpec.               *)
(***************************************************************************)
C8_Inv ==
  \A c \in Callers :
    \* a call that follows a call that returned creates nothing
    /\ qd.prev[c] = "ok" => ~qd.created[c] /\ qd.pc[c] # "creating"
    \* after a call that returned the collection is there
    /\ qd.pc[c] = "ok" => collectionExists(qd.collections)
    \* a caller alone: of its first two calls, both returned, the first created
    \* the collection exactly when it was absent, and the second did not
    /\ ( /\ \A d \in Callers \ {c} : qd.n[d] = 0
         /\ qd.n[c] = 2 /\ qd.pc[c] = "ok" /\ qd.prev[c] = "ok" ) =>
         /\ qd.prevCreated[c] = qd.wasAbsent
         /\ ~qd.created[c]

C8_Step ==
  /\ \A c \in Callers :
       \* createCollection is sent only when the list read lacks the name
       (qd.pc[c] = "listing" /\ qd'.pc[c] = "creating") =>
         ~\E col \in qd.collections : col.name = collectionName
  \* a collection that exists is never changed
  /\ \A col \in qd.collections : col \in qd'.collections
  /\ qd'.collections # qd.collections =>
       /\ qd.wasAbsent
       /\ ~\E col \in qd.collections : col.name = collectionName
       /\ qd'.collections = qd.collections \cup {Collection(collectionName, vectorSize, "Cosine")}

\* C8: ensureCollection sends createCollection only when the collection is
\* not in the store's list; of two calls in a row from an absent collection
\* the first creates it and the second creates nothing, and a call on an
\* existing collection leaves it as it is.
C8_EnsureCollectionIdempotent == [](C8_Inv) /\ [][C8_Step]_vars

\* one caller, two calls in a row from an absent collection, both returned:
\* the first created the collection, the second did not
C8_Witness ==
  \E c \in Callers :
    /\ \A d \in Callers \ {c} : qd.n[d] = 0
    /\ qd.wasAbsent
    /\ qd.n[c] = 2 /\ qd.pc[c] = "ok" /\ qd.prev[c] = "ok"
    /\ qd.prevCreated[c] /\ ~qd.created[c]
    /\ Collection(collectionName, vectorSize, "Cosine") \in qd.collections

(***************************************************************************)
(* Properties of the ingestion run, checked under IngestSpec.              *)
(***************************************************************************)
RECURSIVE TakenUpTo(_, _)
\* the number of items fetchAllArticles takes from feeds 1..f
TakenUpTo(got, f) ==
  IF f = 0 THEN 0
  ELSE TakenUpTo(got, f - 1) + (IF Len(got[f]) < itemsPerFeed THEN Len(got[f]) ELSE itemsPerFeed)

\* the run ended with an error only if the insert into the store failed
OnlyInsertFails ==
  ing.outcome = "error" => Len(ing.upserts) = 1 /\ ~ing.upserts[1].ok

\* C9: a feed that fails on every attempt is tried retries = 2 times and
\* then counts as empty; every other feed is still visited, and the articles
\* are the processed items of the feeds that answered.
C9_BadFeedIsSkipped ==
  /\ \A f \in 1..NumFeeds :
       /\ ing.tried[f] <= retries
       /\ ing.fetched[f] = "failed" =>
            /\ ing.tried[f] = retries
            /\ ing.got[f] = <<>>
            /\ ~\E k \in 1..Len(ing.allArticles) : ing.allArticles[k].source = feeds[f]
       /\ ing.fetched[f] = "ok" => ing.tried[f] \in 1..retries
       /\ \A j \in 1..Len(ing.got[f]) :
            j <= itemsPerFeed =>
              \E k \in 1..Len(ing.allArticles) :
                /\ ing.allArticles[k].source = feeds[f]
                /\ ing.allArticles[k].title = ing.got[f][j].title
                /\ ing.allArticles[k].link = ing.got[f][j].link
  /\ Len(ing.allArticles) = TakenUpTo(ing.got, NumFeeds)
  /\ ing.pc \notin {"off", "fetch"} =>
       /\ \A f \in 1..NumFeeds : ing.fetched[f] # "none"
       /\ ing.articles = ing.allArticles
       /\ (\E f \in 1..NumFeeds : Len(ing.got[f]) > 0) => Len(ing.articles) > 0
  /\ OnlyInsertFails

\* the second feed failed twice, the first and the third gave items, which
\* are the articles the run goes on with
C9_Witness ==
  /\ ing.pc = "embed"
  /\ ing.fetched[1] = "ok" /\ ing.fetched[2] = "failed" /\ ing.fetched[3] = "ok"
  /\ ing.tried[2] = retries
  /\ Len(ing.got[1]) = 2 /\ Len(ing.got[3]) = MaxFeedItems
  /\ Len(ing.articles) >= 2 + itemsPerFeed
  /\ ing.articles[1].source = feeds[1]
  /\ ing.articles[3].source = feeds[3]

\* the number of the batch (from 1) that holds article k
BatchOf(k) == ((k - 1) \div batchSize) + 1

\* C10: a batch whose embedding fails adds no documents; the batches after
\* it are still embedded; the documents of the batches that succeeded go to
\* the store in one insert; and the run does not end with an error because
\* of a failed batch.
C10_FailedBatchIsSkipped ==
  /\ \A n \in 1..Len(ing.batches) : ing.batches[n].start = (n - 1) * batchSize
  /\ \A d \in 1..Len(ing.documents) :
       \E k \in 1..Len(ing.articles) :
         /\ ing.articles[k].id = ing.documents[d].id
         /\ BatchOf(k) <= Len(ing.batches)
         /\ ing.batches[BatchOf(k)].ok
  /\ \A k \in 1..Len(ing.articles) :
       BatchOf(k) <= Len(ing.batches) =>
         (ing.batches[BatchOf(k)].ok <=>
            \E d \in 1..Len(ing.documents) : ing.documents[d].id = ing.articles[k].id)
  /\ (ing.pc \in {"upsert", "done"} /\ Len(ing.articles) > 0) =>
       Len(ing.batches) = BatchOf(Len(ing.articles))
  /\ Len(ing.upserts) <= 1
  /\ Len(ing.upserts) = 1 => ing.upserts[1].points = ing.documents
  /\ (ing.pc = "done" /\ Len(ing.documents) > 0) => Len(ing.upserts) = 1
  /\ ing.pc = "upsert" => Len(ing.documents) > 0
  /\ OnlyInsertFails

\* three batches, the second failed: the run ended well with one insert of
\* the documents of the first and the third
C10_Witness ==
  /\ ing.pc = "done" /\ ing.outcome = "ok"
  /\ Len(ing.batches) = 3
  /\ ing.batches[1].ok /\ ~ing.batches[2].ok /\ ing.batches[3].ok
  /\ Len(ing.articles) = 3 * itemsPerFeed
  /\ Len(ing.documents) = 2 * batchSize
  /\ Len(ing.upserts) = 1 /\ ing.upserts[1].ok
  /\ ing.upserts[1].points = ing.documents

(***************************************************************************)
(* Properties of the context of a chat request, checked under Spec.        *)
(***************************************************************************)
RECURSIVE BlankLineJoined(_)
\* the contents of the hits, in their order, a blank line between two
BlankLineJoined(hits) ==
  IF hits = <<>> THEN <<>>
  ELSE IF Len(hits) = 1 THEN hits[1].payload.content
  ELSE hits[1].payload.content \o <<"\n", "\n">> \o BlankLineJoined(Tail(hits))

\* part occurs in whole, right after the piece before and right before the
\* piece after
Between(whole, before, part, after) ==
  \E i \in 1..Len(whole) :
    /\ whole[i] = before
    /\ SubSeq(whole, i + 1, i + Len(part)) = part
    /\ i + Len(part) + 1 <= Len(whole)
    /\ whole[i + Len(part) + 1] = after

C11_Inv ==
  \A p \in Procs :
    /\ pc[p] = "search" =>
         /\ rq[p].query.limit = 5
         /\ rq[p].query.score_threshold = 7
         /\ rq[p].query.vector = Embedding(Trim(rq[p].message.s))
    /\ pc[p] = "generate" =>
         /\ "generate" \in rq[p].calls
         /\ Between(rq[p].prompt,
                    "You are a helpful news chatbot assistant. [...]\n\nContext from recent news articles:\n",
                    rq[p].context, "\n\nUser Question: ")
    /\ res[p].status = 200 => {"search", "generate"} \subseteq rq[p].calls

C11_Step ==
  \A p \in Procs, reply \in SearchReplies :
    (SearchReturn(p, reply) /\ reply.kind = "hits") =>
      /\ Len(reply.hits) <= rq[p].query.limit
      /\ rq'[p].context = BlankLineJoined(reply.hits)
      /\ pc'[p] = "generate"
      /\ reply.hits = <<>> => rq'[p].context = <<>>

C12_ContentWithinLimits ==
  /\ \A k \in 1..Len(ing.allArticles) : Len(ing.allArticles[k].content) <= 8000
  /\ \A d \in 1..Len(ing.documents) : Len(ing.documents[d].payload.content) <= 1000

(***************************************************************************)
(* Properties of the two keys of a session, checked under Spec.            *)
(***************************************************************************)
\* the original reading of C13: the history list and the last-activity
\* record of a session exist together or not at all
C13_BothKeysOrNeither ==
  \A s \in SessionIds :
    (redis[getHistoryKey(s)].kind = "none") <=> (redis[getSessionKey(s)].kind = "none")

C13_Inv ==
  \A s \in SessionIds :
    /\ redis[getHistoryKey(s)].kind \in {"none", "list"}
    /\ redis[getHistoryKey(s)].kind = "list" => redis[getHistoryKey(s)].val # <<>>
    /\ redis[getHistoryKey(s)].ttl \in {0, historyTTL}
    /\ redis[getSessionKey(s)].kind \in {"none", "string"}
    /\ redis[getSessionKey(s)].kind = "string" => redis[getSessionKey(s)].ttl = sessionTTL

C13_Step ==
  /\ \A p \in Procs :
       LET s == rq[p].sessionId.s
       IN  \* the three writes of addMessage, each on its own key
           /\ AddMessageLPush(p, TRUE) =>
                /\ redis'[getHistoryKey(s)].kind = "list"
                /\ redis'[getSessionKey(s)] = redis[getSessionKey(s)]
           /\ AddMessageExpire(p, TRUE) =>
                /\ redis[getHistoryKey(s)].kind = "list" => redis'[getHistoryKey(s)].ttl = historyTTL
                /\ redis'[getSessionKey(s)] = redis[getSessionKey(s)]
           /\ AddMessageSet(p, TRUE) =>
                /\ redis'[getSessionKey(s)] = [kind |-> "string", val |-> Now, ttl |-> sessionTTL]
                /\ redis'[getHistoryKey(s)] = redis[getHistoryKey(s)]
  /\ \A s \in SessionIds :
       \* a key appears only by the write of an addMessage on its session
       /\ (redis[getHistoryKey(s)].kind = "none" /\ redis'[getHistoryKey(s)].kind # "none") =>
            \E p \in Procs : pc[p] = "lpush" /\ rq[p].sessionId.s = s
       /\ (redis[getSessionKey(s)].kind = "none" /\ redis'[getSessionKey(s)].kind # "none") =>
            \E p \in Procs : pc[p] = "set" /\ rq[p].sessionId.s = s /\ "lPush" \in rq[p].calls
  /\ \A k \in Keys :
       \* a key goes only by its own expiration or by a clear of its session
       (redis[k].kind # "none" /\ redis'[k].kind = "none") =>
         \/ redis[k].ttl > 0 /\ \A j \in Keys \ {k} : redis'[j] = redis[j]
         \/ \E s \in SessionIds :
              /\ k \in {getHistoryKey(s), getSessionKey(s)}
              /\ redis' = clearSession(redis, s)

\* C13 as it holds: the two keys are written by separate commands and expire
\* separately.  The history list comes to exist by the push of an
\* addMessage, the last-activity record by its later set; each write leaves
\* the other key alone; a key disappears by its own expiration or, together
\* with the other, by a clear.
C13_KeysWrittenSeparately == [](C13_Inv) /\ [][C13_Step]_vars

\* a request was answered 200, nothing is in flight, and of its session the
\* history list is left while the last-activity record has lapsed
C13_Witness ==
  \E s \in SessionIds :
    /\ \A p \in Procs : pc[p] \in {"idle", "done"}
    /\ \E p \in Procs : res[p].status = 200 /\ res[p].body.sessionId = s
    /\ redis[getHistoryKey(s)].kind = "list"
    /\ redis[getHistoryKey(s)].ttl = historyTTL
    /\ redis[getSessionKey(s)].kind = "none"

(***************************************************************************)
(* Properties of the expiration of the keys, checked under Spec.           *)
(***************************************************************************)
\* C14: once no addMessage is under way, whatever the calls before did and
\* wherever one of them failed, every history list and every last-activity
\* record that exists carries an expiration.
C14_EveryKeyExpires ==
  (\A p \in Procs : pc[p] \in {"idle", "done"}) =>
    \A k \in Keys : redis[k].kind # "none" => redis[k].ttl > 0

(***************************************************************************)
(* Properties of the shutdown, checked under ShutdownSpec.                 *)
(***************************************************************************)
\* C15: after the signal no new request is accepted, and when the process
\* exits no chat handler is still between its request and its response: no
\* request that was in flight has lost its history append.
C15_GracefulShutdown ==
  /\ ~server.acceptedAfterSignal
  /\ server.state = "exited" => \A p \in Procs : pc[p] \in {"idle", "done"}

(***************************************************************************)
(* Properties of the documents of an ingestion run, checked under          *)
(* IngestSpec.                                                             *)
(***************************************************************************)
\* C16: every document built, and so every document sent to the store, has
\* a vector, and it is the embedding of the content of the article the
\* document was made from.
C16_VectorsMatchArticles ==
  \A d \in 1..Len(ing.documents) :
    /\ ing.documents[d].vector # NoVector
    /\ \E k \in 1..Len(ing.articles) :
         /\ ing.articles[k].id = ing.documents[d].id
         /\ ing.documents[d].vector = Embedding(ing.articles[k].content)

(***************************************************************************)
(* Properties of the article ids, checked under RerunSpec.                 *)
(***************************************************************************)
\* the feed (its number) an article came from
FeedOf(article) == CHOOSE f \in 1..Len(feeds) : feeds[f] = article.source

C17_Inv ==
  /\ ing.articleCounter >= 1
  \* the ids of a process start at 1 and grow in the order of processing:
  \* feed after feed, and within a feed item after item
  /\ Len(ing.allArticles) > 0 => ing.allArticles[1].id = 1
  /\ \A j, k \in 1..Len(ing.allArticles) :
       j < k =>
         /\ ing.allArticles[j].id < ing.allArticles[k].id
         /\ FeedOf(ing.allArticles[j]) <= FeedOf(ing.allArticles[k])
  /\ \A k \in 1..Len(ing.allArticles) :
       LET f == FeedOf(ing.allArticles[k])
       IN  ing.allArticles[k].link = ing.got[f][k - TakenUpTo(ing.got, f - 1)].link
  /\ \A k \in 1..Len(ing.allArticles) : ing.allArticles[k].id < ing.articleCounter
  \* no two documents, and no two points of an insert, share an id
  /\ \A d, e \in 1..Len(ing.documents) :
       d # e => ing.documents[d].id # ing.documents[e].id
  /\ \A u \in 1..Len(ing.upserts) :
       \A d, e \in 1..Len(ing.upserts[u].points) :
         d # e => ing.upserts[u].points[d].id # ing.upserts[u].points[e].id
  /\ \A pt, qt \in qd.points : pt.id = qt.id => pt = qt

C17_Step ==
  \* the counter goes back only when a new process starts, and then to 1
  /\ ing'.articleCounter < ing.articleCounter =>
       /\ ing'.run = ing.run + 1
       /\ ing'.articleCounter = 1
       /\ qd'.points = qd.points
  /\ ing'.run = ing.run => ing'.articleCounter >= ing.articleCounter
  \* an insert that succeeds puts every document in place of the stored point
  \* with its id, whichever run stored that point, and leaves the others
  /\ InsertDocumentsReturn(TRUE) =>
       /\ \A d \in 1..Len(ing.documents) : ing.documents[d] \in qd'.points
       /\ \A pt \in qd.points :
            IF \E d \in 1..Len(ing.documents) : ing.documents[d].id = pt.id
            THEN pt \in qd'.points => \E d \in 1..Len(ing.documents) : ing.documents[d] = pt
            ELSE pt \in qd'.points

\* C17: within a process the ids come from a counter that only grows: the
\* articles of a run have distinct ids, increasing in the order of
\* processing, and no two documents of an insert share an id; a new process
\* counts from 1 again, so that its documents replace the points an earlier
\* run stored under the same ids.
C17_IdsPerProcess == [](C17_Inv) /\ [][C17_Step]_vars

\* the second run has put its two documents, from feed 2, in place of points
\* 1 and 2 of the first run; point 3 of the first run, from feed 1, is left
C17_Witness ==
  /\ ing.run = 2
  /\ ing.pc = "done" /\ ing.outcome = "ok"
  /\ Len(ing.upserts) = 1 /\ ing.upserts[1].ok
  /\ ing.documents[1].id = 1
  /\ FeedOf(ing.allArticles[1]) = 2
  /\ ing.documents[1] \in qd.points
  /\ Len(ing.documents) = 2
  /\ \E pt \in qd.points : pt.id = 3 /\ pt.payload.source = feeds[1]

(***************************************************************************)
(* Properties of concurrent chat requests, checked under Spec.             *)
(***************************************************************************)
\* the handler of p has pushed its entry and not yet answered
Pushed(p) == pc[p] \in {"expire", "set"}

C18_Inv ==
  \A p \in Procs :
    \* the entry of a request pairs its own message with its own response
    /\ pc[p] \in {"lpush", "expire", "set"} => rq[p].data.user = rq[p].message.s
    \* and stands in the history where it was pushed, whatever the other
    \* requests have pushed since, as long as the list was not removed
    /\ (Pushed(p) /\ rq[p].pos > 0) =>
         /\ rq[p].pos <= Len(History(rq[p].sessionId.s))
         /\ History(rq[p].sessionId.s)[rq[p].pos] = rq[p].data
    /\ \A q \in Procs \ {p} :
         (Pushed(p) /\ Pushed(q) /\ rq[p].pos > 0 /\ rq[q].pos > 0
            /\ rq[p].sessionId = rq[q].sessionId) => rq[p].pos # rq[q].pos
    /\ res[p].status = 200 => {"lPush", "expire", "set"} \subseteq rq[p].calls

C18_Step ==
  /\ \A s \in SessionIds :
       LET old == LRange(redis, getHistoryKey(s))
           new == LRange(redis', getHistoryKey(s))
       IN  \* a list grows by one entry at its head, pushed by one request
           /\ Len(new) > Len(old) =>
                /\ Len(new) = Len(old) + 1
                /\ Tail(new) = old
                /\ \E p \in Procs :
                     /\ pc[p] = "lpush" /\ pc'[p] = "expire"
                     /\ rq[p].sessionId.s = s
                     /\ Head(new) = Stringify(rq[p].data)
                     /\ \A q \in Procs \ {p} : pc'[q] = pc[q]
           \* a step of a chat handler takes no entry away and changes none
           /\ (\E p \in Procs : pc'[p] # pc[p]) =>
                /\ Len(new) >= Len(old)
                /\ SubSeq(new, Len(new) - Len(old) + 1, Len(new)) = old
  /\ \A p \in Procs :
       \* every successful push is one more entry
       /\ AddMessageLPush(p, TRUE) =>
            Len(LRange(redis', getHistoryKey(rq[p].sessionId.s)))
              = Len(LRange(redis, getHistoryKey(rq[p].sessionId.s))) + 1
       \* the 200 answer comes after the push and returns the stored response;
       \* the last-activity record is simply overwritten
       /\ (res'[p].status = 200 /\ res[p].status # 200) =>
            /\ pc[p] = "set" /\ "lPush" \in rq[p].calls
            /\ res'[p].body.response = rq[p].data.bot
            /\ res'[p].body.sessionId = rq[p].sessionId.s
            /\ redis'[getSessionKey(rq[p].sessionId.s)].val = Now
            /\ redis'[getHistoryKey(rq[p].sessionId.s)] = redis[getHistoryKey(rq[p].sessionId.s)]

\* C18: however concurrent chat requests on a session interleave, each that
\* answers 200 has pushed exactly one entry before, a push adds one entry and
\* no chat request removes, repeats or changes an entry, and an entry holds
\* the message of its request and the response given to that request; only
\* the last-activity record is overwritten.
C18_ConcurrentAppends == [](C18_Inv) /\ [][C18_Step]_vars

\* two requests on one session, both past their push and neither answered:
\* the history holds the entry of each, in the order of the pushes
C18_Witness ==
  \E p, q \in Procs :
    /\ p # q
    /\ pc[p] = "set" /\ pc[q] = "set"
    /\ rq[p].sessionId = rq[q].sessionId
    /\ rq[p].message # rq[q].message
    /\ rq[p].pos = 1 /\ rq[q].pos = 2
    /\ History(rq[p].sessionId.s) = <<rq[p].data, rq[q].data>>

====
